---- MODULE Spec2Model ----
(***************************************************************************)
(* The authentication state coordinator of the movie app: AuthProvider     *)
(* (the AuthContext source at lines 817-1062 of                            *)
(* Technical_Report_Authentication_Implementation.md) over the Appwrite    *)
(* wrappers (services/appwrite.ts, and the OAuth wrappers of               *)
(* unnamed/part_000).  Every async function of AuthProvider is a task that *)
(* runs from one await to the next in one step; the backend's answer to    *)
(* each awaited call is an input of the step that resumes the task.        *)
(***************************************************************************)
EXTENDS Integers, Sequences, FiniteSets, TLC

(***************************************************************************)
(* Bounds                                                                  *)
(***************************************************************************)
MaxTasks == 2        \* slots for the async calls of AuthProvider
MaxIdentities == 2   \* longest identity list the backend returns
MaxNow == 1          \* clock readings 0..MaxNow, in minutes
MaxQuery == 3        \* most query parameters of a callback URL
MaxExpiry == 61      \* latest expiry date handed to isTokenExpired, in minutes
MaxFind == 3         \* longest identity list searched for the Google identity on its own

(***************************************************************************)
(* Values                                                                  *)
(***************************************************************************)
null == [isNull |-> TRUE]          \* JavaScript null
undefined == "<undefined>"         \* JavaScript undefined, for string fields
nullString == "<null>"             \* JavaScript null, for string fields
Throw == [threw |-> TRUE]          \* a rejected backend call, before its error is looked at

\* what an Appwrite call rejects with
BackendErrors == {"AppwriteException: network", "AppwriteException: unauthorized"}

\* Models.User: the fields the coordinator reads
Users ==
  { [id |-> "u1", name |-> "Ann", email |-> "a@x.com"],
    [id |-> "u2", name |-> "", email |-> ""] }

Str_google == <<"g", "o", "o", "g", "l", "e">>
Str_Google == <<"G", "o", "o", "g", "l", "e">>
Str_google_oauth2 == <<"g", "o", "o", "g", "l", "e", "-", "o", "a", "u", "t", "h", "2">>
Str_github == <<"g", "i", "t", "h", "u", "b">>
Str_oauth2 == <<"o", "a", "u", "t", "h", "2">>
Str_password == <<"p", "a", "s", "s", "w", "o", "r", "d">>
NoProvider == <<undefined>>

\* providerAccessTokenExpiry: not there, an empty string, a string Date cannot
\* parse, or a date
AbsentExpiry == [kind |-> "absent", t |-> 0]
EmptyExpiry == [kind |-> "empty", t |-> 0]
InvalidExpiry == [kind |-> "invalid", t |-> 0]
DateExpiry(t) == [kind |-> "date", t |-> t]

FiveMinutes == 5     \* 5 * 60 * 1000 ms, in minutes

Identity(p, tok, e) ==
  [provider |-> p, providerAccessToken |-> tok, providerAccessTokenExpiry |-> e]

\* the identities account.listIdentities() may hold
Identities ==
  { Identity(Str_google, "ya29.id", DateExpiry(0)),
    Identity(Str_google, "ya29.id", DateExpiry(MaxNow + FiveMinutes)),
    Identity(Str_google, "ya29.id", DateExpiry(MaxNow + FiveMinutes + 1)),
    Identity(Str_google, "ya29.id", EmptyExpiry),
    Identity(Str_google_oauth2, "", InvalidExpiry),
    Identity(Str_Google, "ya29.id2", DateExpiry(FiveMinutes)),
    Identity(Str_github, "gho.id", DateExpiry(0)),
    Identity(NoProvider, "tok.id", EmptyExpiry) }

IdentityLists == UNION { [1..n -> Identities] : n \in 0..MaxIdentities }

\* account.listIdentities(): rejects, or answers { identities: [...] }
ListIdentitiesReplies == {Throw} \cup { [identities |-> l] : l \in IdentityLists }

\* getCurrentSession(): rejects, answers null, or a session
Sessions ==
  { [provider |-> Str_oauth2, providerAccessToken |-> ""],
    [provider |-> Str_oauth2, providerAccessToken |-> "ya29.sess"],
    [provider |-> Str_google, providerAccessToken |-> "ya29.sess"],
    [provider |-> Str_Google, providerAccessToken |-> "ya29.sess"],
    [provider |-> Str_google, providerAccessToken |-> ""],
    [provider |-> Str_password, providerAccessToken |-> ""],
    [provider |-> NoProvider, providerAccessToken |-> "ya29.sess"] }

GetCurrentSessionReplies == {Throw, null} \cup Sessions

\* the body of the userinfo response, or Throw when fetch/json rejects
GoogleProfiles ==
  { [name |-> "Ada", picture |-> "http://p.png"],
    [name |-> "Ada", picture |-> undefined],
    [name |-> undefined, picture |-> "http://p.png"],
    [name |-> undefined, picture |-> undefined],
    [name |-> "", picture |-> ""] }

FetchReplies == {Throw} \cup GoogleProfiles

\* result.url of the auth session: not there, empty, not a URL, or a URL with
\* its query parameters in order
Url(kind, query) == [kind |-> kind, query |-> query]

CallbackUrls ==
  { Url("undefined", <<>>),
    Url("empty", <<>>),
    Url("malformed", <<>>),
    Url("url", <<>>),
    Url("url", << <<"secret", "s1">>, <<"userId", "u1">> >>),
    Url("url", << <<"userId", "u1">>, <<"secret", "s1">> >>),
    Url("url", << <<"userId", "u1">>, <<"state", "x">>, <<"secret", "s1">> >>),
    Url("url", << <<"secret", "s1">>, <<"secret", "s2">>, <<"userId", "u2">> >>),
    Url("url", << <<"secret", "s1">> >>),
    Url("url", << <<"userId", "u1">> >>),
    Url("url", << <<"secret", "">>, <<"userId", "u1">> >>),
    Url("url", << <<"error", "access_denied">> >>) }

\* the callback strings handed to processOAuthCallback: not a URL, or a URL
\* with up to MaxQuery query parameters in any order
QueryParams == {"userId", "secret", "state"} \X {"", "v1", "v2"}

CallbackInputs ==
  { Url("malformed", <<>>), Url("empty", <<>>) }
  \cup { Url("url", q) : q \in UNION { [1..n -> QueryParams] : n \in 0..MaxQuery } }

\* what WebBrowser.openAuthSessionAsync resolves with
AgentResults ==
  { [type |-> "cancel", url |-> Url("undefined", <<>>)],
    [type |-> "dismiss", url |-> Url("undefined", <<>>)],
    [type |-> "locked", url |-> Url("undefined", <<>>)] }
  \cup { [type |-> "success", url |-> u] : u \in CallbackUrls }

(***************************************************************************)
(* String helpers of the JavaScript runtime                                *)
(***************************************************************************)
UpperAlpha == <<"A", "B", "C", "D", "E", "F", "G", "H", "I", "J", "K", "L", "M",
                "N", "O", "P", "Q", "R", "S", "T", "U", "V", "W", "X", "Y", "Z">>
LowerAlpha == <<"a", "b", "c", "d", "e", "f", "g", "h", "i", "j", "k", "l", "m",
                "n", "o", "p", "q", "r", "s", "t", "u", "v", "w", "x", "y", "z">>

toLowerCaseChar(c) ==
  IF \E i \in 1..26 : UpperAlpha[i] = c
  THEN LowerAlpha[CHOOSE i \in 1..26 : UpperAlpha[i] = c]
  ELSE c

toLowerCase(s) == [i \in 1..Len(s) |-> toLowerCaseChar(s[i])]

includes(s, frag) ==
  \E i \in 0..(Len(s) - Len(frag)) : SubSeq(s, i + 1, i + Len(frag)) = frag

\* JavaScript truthiness of a string field
truthy(s) == s # "" /\ s # undefined /\ s # nullString

(***************************************************************************)
(* services/appwrite.ts and the OAuth wrappers of unnamed/part_000         *)
(***************************************************************************)
\* getCurrentUser: account.get(), null when it rejects
getCurrentUser(reply) == IF reply = Throw THEN null ELSE reply

\* getUserIdentities: account.listIdentities(), null when it rejects
getUserIdentities(reply) == IF reply = Throw THEN null ELSE reply

\* getGoogleProfile: the parsed response, null when fetch or json rejects
getGoogleProfile(reply) == IF reply = Throw THEN null ELSE reply

\* isTokenExpired comparing with < in place of <=
isTokenExpired_strict(expiryDateString, now) ==
  IF expiryDateString.kind \in {"absent", "empty"} THEN TRUE
  ELSE IF expiryDateString.kind = "invalid" THEN FALSE
  ELSE expiryDateString.t < now + FiveMinutes

\* isTokenExpired: an absent or empty string is expired; an unparseable one
\* gives an Invalid Date, and every comparison with it is false
isTokenExpired(expiryDateString, now) ==
  IF expiryDateString.kind \in {"absent", "empty"} THEN TRUE
  ELSE IF expiryDateString.kind = "invalid" THEN FALSE
  ELSE expiryDateString.t <= now + FiveMinutes

\* the test without toLowerCase()
providerIncludesGoogle_caseSensitive(identity) ==
  IF identity.provider = NoProvider THEN FALSE
  ELSE includes(identity.provider, Str_google)

\* identity.provider?.toLowerCase().includes('google')
providerIncludesGoogle(identity) ==
  IF identity.provider = NoProvider THEN FALSE
  ELSE includes(toLowerCase(identity.provider), Str_google)

\* identities.identities.find(...): the first match in list order, or null
findGoogleIdentity(list) ==
  IF \E i \in 1..Len(list) : providerIncludesGoogle(list[i])
  THEN list[CHOOSE i \in 1..Len(list) :
              /\ providerIncludesGoogle(list[i])
              /\ \A j \in 1..(i - 1) : ~providerIncludesGoogle(list[j])]
  ELSE null

\* checkAndRefreshOAuthTokens, up to its call of refreshOAuthSession: TRUE when
\* the session refresh is requested
needsRefresh(identities, now) ==
  IF identities = null THEN FALSE
  ELSE LET googleIdentity == findGoogleIdentity(identities.identities)
       IN  /\ googleIdentity # null
           /\ googleIdentity.providerAccessTokenExpiry.kind \notin {"absent", "empty"}
           /\ isTokenExpired(googleIdentity.providerAccessTokenExpiry, now)

(***************************************************************************)
(* AuthProvider: fetchUserProfile                                          *)
(***************************************************************************)
\* the base profile taking the user's name as it is
baseProfile_noFallback(currentUser) ==
  [ name |-> currentUser.name,
    email |-> IF truthy(currentUser.email) THEN currentUser.email ELSE "",
    avatar |-> undefined ]

\* the profile fetchUserProfile starts from, and falls back to
baseProfile(currentUser) ==
  [ name |-> IF truthy(currentUser.name) THEN currentUser.name ELSE "User",
    email |-> IF truthy(currentUser.email) THEN currentUser.email ELSE "",
    avatar |-> undefined ]

\* the overlay forgetting the picture
overlayGoogleProfile_nameOnly(profile, googleProfile) ==
  IF googleProfile = null THEN profile
  ELSE [ name |-> IF truthy(googleProfile.name) THEN googleProfile.name ELSE profile.name,
         email |-> profile.email,
         avatar |-> profile.avatar ]

\* if (googleProfile) { profile.name = googleProfile.name || profile.name;
\*                      profile.avatar = googleProfile.picture }
overlayGoogleProfile(profile, googleProfile) ==
  IF googleProfile = null THEN profile
  ELSE [ name |-> IF truthy(googleProfile.name) THEN googleProfile.name ELSE profile.name,
         email |-> profile.email,
         avatar |-> googleProfile.picture ]

\* the first branch: the session carries a token and names google
sessionHasGoogleToken(session) ==
  /\ session # null
  /\ truthy(session.providerAccessToken)
  /\ \/ session.provider = Str_google
     \/ providerIncludesGoogle(session)

\* the identities looked up for every session there is
sessionIsOAuth2_anySession(session) == session # null

\* the second branch: an oauth2 session, the token is looked up in the identities
sessionIsOAuth2(session) ==
  /\ session # null
  /\ session.provider = Str_oauth2

(***************************************************************************)
(* State                                                                   *)
(***************************************************************************)
VARIABLES
  user,        \* useState(null): the published user
  userProfile, \* useState(null): the published profile
  isLoading,   \* useState(true)
  mounted,     \* the startup effect of AuthProvider has run
  tasks,       \* the async calls in flight, by slot
  last,        \* the call that settled in the last step, if one did
  backend,     \* what the backend holds, when its answers are pinned to one state
  signedOut    \* logout has completed and no call was started since

vars == <<user, userProfile, isLoading, mounted, tasks, last, backend, signedOut>>

TaskIds == 1..MaxTasks

InTrace(call, trace) == \E i \in 1..Len(trace) : trace[i] = call

\* what a checkCurrentUser found published when it started; afterRefresh says
\* that the call completed just before it was a checkCurrentUser that resolved
NoBefore == [user |-> null, userProfile |-> null, afterRefresh |-> FALSE]

\* a free slot
Idle == [op |-> "idle", pc |-> "idle", currentUser |-> null, session |-> null, token |-> "",
         credentials |-> null, policyExpired |-> FALSE, trace |-> <<>>, before |-> NoBefore,
         result |-> null, overlapped |-> FALSE]

\* error is what the call rejected with, caught what its catch block received
NoLast == [op |-> "none", status |-> "none", error |-> "", caught |-> "",
           trace |-> <<>>, credentials |-> null, policyExpired |-> FALSE,
           currentUser |-> null, session |-> null, before |-> NoBefore, result |-> null,
           alert |-> null, overlapped |-> FALSE]

Ops == {"checkCurrentUser", "signin", "signup", "googleSignIn", "logout"}

\* the backend answers each call as it likes
Unpinned == [pinned |-> FALSE]

\* backend states that stay as they are over a run: the current user, the
\* current session, the identities, and what the userinfo endpoint answers to
\* the session's token and to an identity's token
Backends ==
  { [pinned |-> TRUE, user |-> u, session |-> s, identities |-> i,
     sessionProfile |-> ps, identityProfile |-> pi] :
      u \in {Throw} \cup Users,
      s \in { Throw, null,
              [provider |-> Str_oauth2, providerAccessToken |-> ""],
              [provider |-> Str_oauth2, providerAccessToken |-> "ya29.sess"],
              [provider |-> Str_google, providerAccessToken |-> "ya29.sess"],
              [provider |-> Str_google, providerAccessToken |-> ""],
              [provider |-> Str_password, providerAccessToken |-> ""] },
      i \in { Throw,
              [identities |-> <<>>],
              [identities |-> <<Identity(Str_google, "ya29.id", DateExpiry(0))>>],
              [identities |-> <<Identity(Str_google, "ya29.id", EmptyExpiry)>>],
              [identities |-> <<Identity(Str_google, "", DateExpiry(MaxNow + FiveMinutes + 1))>>],
              [identities |-> <<Identity(Str_google, undefined, EmptyExpiry)>>],
              [identities |-> <<Identity(Str_github, "gho.id", DateExpiry(0)),
                                Identity(Str_Google, "ya29.id2", DateExpiry(FiveMinutes))>>] },
      ps \in { Throw, [name |-> "Ada", picture |-> "http://p.png"] },
      pi \in { Throw, [name |-> "Ada", picture |-> "http://p.png"],
               [name |-> undefined, picture |-> "http://p.png"],
               [name |-> "Ada", picture |-> undefined],
               [name |-> "", picture |-> ""] } }

\* an account whose account.get() answers the user at one call and fails at
\* another (the session is not there yet, or the network is down for a moment)
Intermittent(u) == [intermittent |-> TRUE, user |-> u]

\* account.get()
Backend_get ==
  IF ~backend.pinned THEN {Throw} \cup Users
  ELSE IF backend.user \in {Intermittent(u) : u \in Users} THEN {Throw, backend.user.user}
  ELSE {backend.user}

\* account.listIdentities()
Backend_listIdentities ==
  IF backend.pinned THEN {backend.identities} ELSE ListIdentitiesReplies

\* getCurrentSession()
Backend_getCurrentSession ==
  IF backend.pinned THEN {backend.session} ELSE GetCurrentSessionReplies

\* fetch of the userinfo endpoint with an access token
Backend_fetch(accessToken) ==
  IF backend.pinned
  THEN IF accessToken = "ya29.sess" THEN {backend.sessionProfile}
       ELSE {backend.identityProfile}
  ELSE FetchReplies

\* a provider constructed with useState(false) for isLoading
Constructed_notLoading ==
  /\ user = null
  /\ userProfile = null
  /\ isLoading = FALSE
  /\ mounted = FALSE
  /\ tasks = [t \in TaskIds |-> Idle]
  /\ last = NoLast
  /\ signedOut = FALSE

\* the state after construction, before the backend is looked at
Constructed ==
  /\ user = null
  /\ userProfile = null
  /\ isLoading = TRUE
  /\ mounted = FALSE
  /\ tasks = [t \in TaskIds |-> Idle]
  /\ last = NoLast
  /\ signedOut = FALSE

Init ==
  /\ Constructed
  /\ backend = Unpinned

\* the task moves to its next await
Goto(t, pc, calls) ==
  /\ tasks' = [tasks EXCEPT ![t].pc = pc, ![t].trace = tasks[t].trace \o calls]
  /\ last' = NoLast

\* Alert.alert(title, message) of the sign-in screen
Alert(title, message) == [title |-> title, message |-> message]

\* handleSignIn of the sign-in screen, called with both fields filled, once
\* signin has settled: its catch shows the error
handleSignIn(status, error) ==
  IF status = "rejected"
  THEN Alert("Sign In Failed", IF truthy(error) THEN error ELSE "An error occurred")
  ELSE null

\* handleGoogleSignIn of the sign-in screen once signInWithGoogle has settled:
\* its catch shows the error
handleGoogleSignIn(status, error) ==
  IF status = "rejected"
  THEN Alert("Google Sign In Failed", IF truthy(error) THEN error ELSE "An error occurred")
  ELSE null

\* the dialog the sign-in screen shows when the call it awaited settles
screenAlert(op, status, error) ==
  CASE op = "signin" -> handleSignIn(status, error)
    [] op = "googleSignIn" -> handleGoogleSignIn(status, error)
    [] OTHER -> null

\* the task's promise settles and its slot is free again; session is what
\* getCurrentSession answered to it, if it was asked
SettleResult(t, status, error, caught, calls, session, result) ==
  /\ tasks' = [tasks EXCEPT ![t] = Idle]
  /\ last' = [op |-> tasks[t].op, status |-> status, error |-> error, caught |-> caught,
              trace |-> tasks[t].trace \o calls, credentials |-> tasks[t].credentials,
              policyExpired |-> tasks[t].policyExpired,
              currentUser |-> tasks[t].currentUser, session |-> session,
              before |-> tasks[t].before, result |-> result,
              alert |-> screenAlert(tasks[t].op, status, error),
              overlapped |-> tasks[t].overlapped]

SettleWith(t, status, error, caught, calls, session) ==
  SettleResult(t, status, error, caught, calls, session, tasks[t].result)

Settle(t, status, error, caught, calls) ==
  SettleWith(t, status, error, caught, calls, tasks[t].session)

(***************************************************************************)
(* checkCurrentUser / refreshAuthState                                     *)
(***************************************************************************)
\* the lowest free slot takes the next call
FreeSlot(t) ==
  /\ tasks[t] = Idle
  /\ \A s \in 1..(t - 1) : tasks[s] # Idle

\* the awaits of checkCurrentUser and of the functions it calls
RefreshPcs ==
  { "check.listIdentities", "check.updateSession", "check.get",
    "profile.getCurrentSession", "profile.sessionFetch",
    "profile.listIdentities", "profile.identityFetch" }

InRefresh(t) == tasks[t].pc \in RefreshPcs

\* checkCurrentUser up to its first await: setIsLoading(true), then
\* checkAndRefreshOAuthTokens asks for the identities; overlapped marks this
\* run and every run of checkCurrentUser that is in flight beside it
enterCheckCurrentUser(t, op, trace) ==
  /\ isLoading' = TRUE
  /\ tasks' = [s \in TaskIds |->
       IF s = t
       THEN [op |-> op, pc |-> "check.listIdentities", currentUser |-> null,
             session |-> null, token |-> "",
             credentials |-> tasks[t].credentials, policyExpired |-> FALSE,
             trace |-> trace \o <<"checkCurrentUser", "account.listIdentities">>,
             before |-> [user |-> user, userProfile |-> userProfile,
                         afterRefresh |-> /\ last.status = "resolved"
                                          /\ InTrace("checkCurrentUser", last.trace)],
             result |-> tasks[t].result,
             overlapped |-> \E o \in TaskIds \ {t} : InRefresh(o)]
       ELSE IF InRefresh(s) THEN [tasks[s] EXCEPT !.overlapped = TRUE]
       ELSE tasks[s]]
  /\ last' = NoLast

\* checkCurrentUser without its finally block
finishCheckCurrentUser_noFinally(t, calls) ==
  /\ isLoading' = isLoading
  /\ Settle(t, "resolved", "", "", calls)

\* the finally block of checkCurrentUser; the promise resolves
finishCheckCurrentUser(t, calls) ==
  /\ isLoading' = FALSE
  /\ Settle(t, "resolved", "", "", calls)

\* fetchUserProfile returning past the finally block of checkCurrentUser
finishFetchUserProfile_noFinally(t, calls, session) ==
  /\ isLoading' = isLoading
  /\ SettleWith(t, "resolved", "", "", calls, session)

\* the finally block of checkCurrentUser, reached from fetchUserProfile in the
\* step that received the session
finishFetchUserProfile(t, calls, session) ==
  /\ isLoading' = FALSE
  /\ SettleWith(t, "resolved", "", "", calls, session)

\* useEffect(() => { checkCurrentUser() }, [])
Mount ==
  /\ ~mounted
  /\ mounted' = TRUE
  /\ \E t \in TaskIds :
       /\ FreeSlot(t)
       /\ enterCheckCurrentUser(t, "checkCurrentUser", <<"useEffect">>)
  /\ signedOut' = FALSE
  /\ UNCHANGED <<user, userProfile, backend>>

\* a caller (the OAuth callback screens) invokes refreshAuthState()
refreshAuthState ==
  /\ mounted
  /\ \E t \in TaskIds :
       /\ FreeSlot(t)
       /\ enterCheckCurrentUser(t, "checkCurrentUser", <<>>)
  /\ signedOut' = FALSE
  /\ UNCHANGED <<user, userProfile, mounted, backend>>

\* checkAndRefreshOAuthTokens resumes with the identities
checkAndRefreshOAuthTokens(t) ==
  /\ tasks[t].pc = "check.listIdentities"
  /\ \E reply \in Backend_listIdentities, now \in 0..MaxNow :
       LET identities == getUserIdentities(reply)
           googleIdentity == IF identities = null THEN null
                             ELSE findGoogleIdentity(identities.identities)
           expired == /\ googleIdentity # null
                      /\ isTokenExpired(googleIdentity.providerAccessTokenExpiry, now)
           failed == IF reply = Throw THEN <<"rejected: account.listIdentities">> ELSE <<>>
       IN  IF needsRefresh(identities, now)
           THEN /\ tasks' = [tasks EXCEPT ![t].pc = "check.updateSession",
                                          ![t].policyExpired = expired,
                                          ![t].trace = @ \o <<"account.updateSession">>]
                /\ last' = NoLast
           ELSE /\ tasks' = [tasks EXCEPT ![t].pc = "check.get",
                                          ![t].policyExpired = expired,
                                          ![t].trace = @ \o failed \o <<"account.get">>]
                /\ last' = NoLast
  /\ UNCHANGED <<user, userProfile, isLoading, mounted, backend, signedOut>>

\* refreshOAuthSession with no try/catch above it: its rejection reaches the caller
refreshOAuthSession_uncaught(t) ==
  /\ tasks[t].pc = "check.updateSession"
  /\ \E reply \in {"ok"} \cup BackendErrors :
       IF reply = "ok"
       THEN /\ Goto(t, "check.get", <<"account.get">>)
            /\ UNCHANGED <<user, userProfile, isLoading>>
       ELSE /\ user' = null
            /\ userProfile' = null
            /\ isLoading' = FALSE
            /\ Settle(t, "rejected", reply, reply, <<"rejected: account.updateSession">>)
  /\ UNCHANGED <<mounted, backend, signedOut>>

\* a rejected session refresh ending checkCurrentUser before it asks for the user
refreshOAuthSession_endsRefresh(t) ==
  /\ tasks[t].pc = "check.updateSession"
  /\ \E reply \in {"ok"} \cup BackendErrors :
       IF reply = "ok"
       THEN /\ Goto(t, "check.get", <<"account.get">>)
            /\ UNCHANGED isLoading
       ELSE finishCheckCurrentUser(t, <<"rejected: account.updateSession">>)
  /\ UNCHANGED <<user, userProfile, mounted, backend, signedOut>>

\* refreshOAuthSession settles; a rejection is caught by
\* checkAndRefreshOAuthTokens, and checkCurrentUser goes on to getCurrentUser
refreshOAuthSession(t) ==
  /\ tasks[t].pc = "check.updateSession"
  /\ \E reply \in {"ok"} \cup BackendErrors :
       LET failed == IF reply = "ok" THEN <<>> ELSE <<"rejected: account.updateSession">>
       IN  Goto(t, "check.get", failed \o <<"account.get">>)
  /\ UNCHANGED <<user, userProfile, isLoading, mounted, backend, signedOut>>

\* checkCurrentUser publishing the user only when none is published yet, and
\* dropping the published one otherwise
checkCurrentUser_togglesUser(t) ==
  /\ tasks[t].pc = "check.get"
  /\ \E reply \in Backend_get :
       LET currentUser == getCurrentUser(reply)
       IN  IF currentUser # null
           THEN /\ user' = IF user = null THEN currentUser ELSE null
                /\ tasks' = [tasks EXCEPT ![t].pc = "profile.getCurrentSession",
                                          ![t].currentUser = currentUser,
                                          ![t].trace = @ \o <<"getCurrentSession">>]
                /\ last' = NoLast
                /\ UNCHANGED <<userProfile, isLoading>>
           ELSE /\ user' = null
                /\ userProfile' = null
                /\ finishCheckCurrentUser(t, <<"getCurrentUser: no user">>)
  /\ UNCHANGED <<mounted, backend, signedOut>>

\* checkCurrentUser rejecting when getCurrentUser finds no user
checkCurrentUser_throwsWithoutUser(t) ==
  /\ tasks[t].pc = "check.get"
  /\ \E reply \in Backend_get :
       LET currentUser == getCurrentUser(reply)
       IN  IF currentUser # null
           THEN /\ user' = currentUser
                /\ tasks' = [tasks EXCEPT ![t].pc = "profile.getCurrentSession",
                                          ![t].currentUser = currentUser,
                                          ![t].trace = @ \o <<"getCurrentSession">>]
                /\ last' = NoLast
                /\ UNCHANGED <<userProfile, isLoading>>
           ELSE /\ user' = null
                /\ userProfile' = null
                /\ isLoading' = FALSE
                /\ Settle(t, "rejected", "Error: no user", "", <<"getCurrentUser: no user">>)
  /\ UNCHANGED <<mounted, backend, signedOut>>

\* checkCurrentUser resumes with the current user
checkCurrentUser(t) ==
  /\ tasks[t].pc = "check.get"
  /\ \E reply \in Backend_get :
       LET currentUser == getCurrentUser(reply)
       IN  IF currentUser # null
           THEN /\ user' = currentUser
                /\ tasks' = [tasks EXCEPT ![t].pc = "profile.getCurrentSession",
                                          ![t].currentUser = currentUser,
                                          ![t].trace = @ \o <<"getCurrentSession">>]
                /\ last' = NoLast
                /\ UNCHANGED <<userProfile, isLoading>>
           ELSE /\ user' = null
                /\ userProfile' = null
                /\ finishCheckCurrentUser(t, <<"getCurrentUser: no user">>)
  /\ UNCHANGED <<mounted, backend, signedOut>>

\* fetchUserProfile resumes with the session
fetchUserProfile(t) ==
  /\ tasks[t].pc = "profile.getCurrentSession"
  /\ \E session \in Backend_getCurrentSession :
       IF session = Throw
       THEN /\ userProfile' = baseProfile(tasks[t].currentUser)
            /\ finishFetchUserProfile(t, <<"rejected: getCurrentSession">>, session)
       ELSE IF sessionHasGoogleToken(session)
       THEN /\ tasks' = [tasks EXCEPT ![t].pc = "profile.sessionFetch",
                                      ![t].session = session,
                                      ![t].token = session.providerAccessToken,
                                      ![t].trace = @ \o <<"fetch: session token">>]
            /\ last' = NoLast
            /\ UNCHANGED <<userProfile, isLoading>>
       ELSE IF sessionIsOAuth2(session)
       THEN /\ tasks' = [tasks EXCEPT ![t].pc = "profile.listIdentities",
                                      ![t].session = session,
                                      ![t].trace = @ \o <<"account.listIdentities">>]
            /\ last' = NoLast
            /\ UNCHANGED <<userProfile, isLoading>>
       ELSE /\ userProfile' = baseProfile(tasks[t].currentUser)
            /\ finishFetchUserProfile(t, <<>>, session)
  /\ UNCHANGED <<user, mounted, backend, signedOut>>

\* fetchUserProfile resumes with the Google profile fetched with the session's token
fetchUserProfileFromSession(t) ==
  /\ tasks[t].pc = "profile.sessionFetch"
  /\ \E reply \in Backend_fetch(tasks[t].token) :
       /\ userProfile' = overlayGoogleProfile(baseProfile(tasks[t].currentUser),
                                              getGoogleProfile(reply))
       /\ finishCheckCurrentUser(t, IF reply = Throw THEN <<"rejected: fetch">> ELSE <<>>)
  /\ UNCHANGED <<user, mounted, backend, signedOut>>

\* the profile fetched with whatever token the Google identity carries, an
\* empty or absent one included
fetchUserProfileIdentities_anyToken(t) ==
  /\ tasks[t].pc = "profile.listIdentities"
  /\ \E reply \in Backend_listIdentities :
       LET identities == getUserIdentities(reply)
           googleIdentity == IF identities = null THEN null
                             ELSE findGoogleIdentity(identities.identities)
       IN  IF googleIdentity # null
           THEN /\ tasks' = [tasks EXCEPT ![t].pc = "profile.identityFetch",
                                          ![t].token = googleIdentity.providerAccessToken,
                                          ![t].trace = @ \o <<"fetch: identity token">>]
                /\ last' = NoLast
                /\ UNCHANGED <<userProfile, isLoading>>
           ELSE /\ userProfile' = baseProfile(tasks[t].currentUser)
                /\ finishCheckCurrentUser(t,
                     IF reply = Throw THEN <<"rejected: account.listIdentities">> ELSE <<>>)
  /\ UNCHANGED <<user, mounted, backend, signedOut>>

\* fetchUserProfile resumes with the identities of an oauth2 session
fetchUserProfileIdentities(t) ==
  /\ tasks[t].pc = "profile.listIdentities"
  /\ \E reply \in Backend_listIdentities :
       LET identities == getUserIdentities(reply)
           googleIdentity == IF identities = null THEN null
                             ELSE findGoogleIdentity(identities.identities)
       IN  IF googleIdentity # null /\ truthy(googleIdentity.providerAccessToken)
           THEN /\ tasks' = [tasks EXCEPT ![t].pc = "profile.identityFetch",
                                          ![t].token = googleIdentity.providerAccessToken,
                                          ![t].trace = @ \o <<"fetch: identity token">>]
                /\ last' = NoLast
                /\ UNCHANGED <<userProfile, isLoading>>
           ELSE /\ userProfile' = baseProfile(tasks[t].currentUser)
                /\ finishCheckCurrentUser(t,
                     IF reply = Throw THEN <<"rejected: account.listIdentities">> ELSE <<>>)
  /\ UNCHANGED <<user, mounted, backend, signedOut>>

\* a failed fetch reaching the catch block of checkCurrentUser
fetchUserProfileFromIdentity_fatal(t) ==
  /\ tasks[t].pc = "profile.identityFetch"
  /\ \E reply \in Backend_fetch(tasks[t].token) :
       IF reply = Throw
       THEN /\ user' = null
            /\ userProfile' = null
            /\ finishCheckCurrentUser(t, <<"rejected: fetch">>)
       ELSE /\ user' = user
            /\ userProfile' = overlayGoogleProfile(baseProfile(tasks[t].currentUser),
                                                   getGoogleProfile(reply))
            /\ finishCheckCurrentUser(t, <<>>)
  /\ UNCHANGED <<mounted, backend, signedOut>>

\* fetchUserProfile resumes with the Google profile fetched with the identity's token
fetchUserProfileFromIdentity(t) ==
  /\ tasks[t].pc = "profile.identityFetch"
  /\ \E reply \in Backend_fetch(tasks[t].token) :
       /\ userProfile' = overlayGoogleProfile(baseProfile(tasks[t].currentUser),
                                              getGoogleProfile(reply))
       /\ finishCheckCurrentUser(t, IF reply = Throw THEN <<"rejected: fetch">> ELSE <<>>)
  /\ UNCHANGED <<user, mounted, backend, signedOut>>

(***************************************************************************)
(* signin, signup                                                          *)
(***************************************************************************)
\* a call starts in a free slot and runs to its first await
startTask(t, op, pc, call) ==
  /\ mounted
  /\ FreeSlot(t)
  /\ tasks' = [tasks EXCEPT ![t] = [Idle EXCEPT !.op = op, !.pc = pc, !.trace = <<call>>]]
  /\ last' = NoLast

\* signin throwing an error of its own in place of the one it caught
signinCatch_wrapsError(t, error, calls) ==
  /\ user' = null
  /\ Settle(t, "rejected", "Error: sign in failed", error, calls)
  /\ UNCHANGED <<userProfile, isLoading>>

\* catch (error) { setUser(null); throw error } of signin
signinCatch(t, error, calls) ==
  /\ user' = null
  /\ Settle(t, "rejected", error, error, calls)
  /\ UNCHANGED <<userProfile, isLoading>>

\* signup logging the error without throwing it, as logout does
signupCatch_swallows(t, error, calls) ==
  /\ user' = null
  /\ Settle(t, "resolved", "", error, calls)
  /\ UNCHANGED <<userProfile, isLoading>>

\* catch (error) { setUser(null); throw error } of signup
signupCatch(t, error, calls) ==
  /\ user' = null
  /\ Settle(t, "rejected", error, error, calls)
  /\ UNCHANGED <<userProfile, isLoading>>

\* catch (error) { setUser(null); throw error } of googleSignIn
googleSignInCatch(t, error, calls, result) ==
  /\ user' = null
  /\ SettleResult(t, "rejected", error, error, calls, tasks[t].session, result)
  /\ UNCHANGED <<userProfile, isLoading>>

\* signin(email, password) is called: signIn asks for a password session
signinStart ==
  /\ \E t \in TaskIds :
       startTask(t, "signin", "signin.createEmailPasswordSession",
                 "account.createEmailPasswordSession")
  /\ signedOut' = FALSE
  /\ UNCHANGED <<user, userProfile, isLoading, mounted, backend>>

\* signin resumes after signIn
signin(t) ==
  /\ tasks[t].pc = "signin.createEmailPasswordSession"
  /\ \E reply \in {"session"} \cup BackendErrors :
       IF reply = "session"
       THEN /\ enterCheckCurrentUser(t, tasks[t].op, tasks[t].trace)
            /\ UNCHANGED <<user, userProfile>>
       ELSE signinCatch(t, reply, <<"rejected: account.createEmailPasswordSession">>)
  /\ UNCHANGED <<mounted, backend, signedOut>>

\* signup(email, password, name) is called: createAccount asks for the account
signupStart ==
  /\ \E t \in TaskIds :
       startTask(t, "signup", "signup.create", "account.create")
  /\ signedOut' = FALSE
  /\ UNCHANGED <<user, userProfile, isLoading, mounted, backend>>

\* signup going on to signIn although createAccount threw
signupCreateAccount_signsInAnyway(t) ==
  /\ tasks[t].pc = "signup.create"
  /\ \E reply \in {"account"} \cup BackendErrors :
       /\ Goto(t, "signup.createEmailPasswordSession",
               IF reply = "account"
               THEN <<"account.createEmailPasswordSession">>
               ELSE <<"rejected: account.create", "account.createEmailPasswordSession">>)
       /\ UNCHANGED <<user, userProfile, isLoading>>
  /\ UNCHANGED <<mounted, backend, signedOut>>

\* signup resumes after createAccount
signupCreateAccount(t) ==
  /\ tasks[t].pc = "signup.create"
  /\ \E reply \in {"account"} \cup BackendErrors :
       IF reply = "account"
       THEN /\ Goto(t, "signup.createEmailPasswordSession",
                    <<"account.createEmailPasswordSession">>)
            /\ UNCHANGED <<user, userProfile, isLoading>>
       ELSE signupCatch(t, reply, <<"rejected: account.create">>)
  /\ UNCHANGED <<mounted, backend, signedOut>>

\* signup resumes after signIn
signupSignIn(t) ==
  /\ tasks[t].pc = "signup.createEmailPasswordSession"
  /\ \E reply \in {"session"} \cup BackendErrors :
       IF reply = "session"
       THEN /\ enterCheckCurrentUser(t, tasks[t].op, tasks[t].trace)
            /\ UNCHANGED <<user, userProfile>>
       ELSE signupCatch(t, reply, <<"rejected: account.createEmailPasswordSession">>)
  /\ UNCHANGED <<mounted, backend, signedOut>>

(***************************************************************************)
(* googleSignIn over signInWithGoogle                                      *)
(***************************************************************************)
\* url.searchParams.get(name): the first value of the parameter, or null
searchParamsGet(url, name) ==
  IF \E i \in 1..Len(url.query) : url.query[i][1] = name
  THEN url.query[CHOOSE i \in 1..Len(url.query) :
                   /\ url.query[i][1] = name
                   /\ \A j \in 1..(i - 1) : url.query[j][1] # name][2]
  ELSE nullString

\* signInWithGoogle going on to the session with the userId alone
signInWithGoogleResult_userIdOnly(result) ==
  IF result.type = "cancel" THEN "OAuth cancelled by user"
  ELSE IF result.type = "success" /\ result.url.kind \notin {"undefined", "empty"}
  THEN IF result.url.kind = "malformed" THEN "TypeError: Invalid URL"
       ELSE IF truthy(searchParamsGet(result.url, "userId"))
       THEN "createSession"
       ELSE "OAuth parameters not found in redirect URL"
  ELSE "OAuth flow did not complete successfully"

\* signInWithGoogle from the auth session's result to its next await: the error
\* it throws, or "createSession" when it goes on to exchange the credentials
signInWithGoogleResult(result) ==
  IF result.type = "cancel" THEN "OAuth cancelled by user"
  ELSE IF result.type = "success" /\ result.url.kind \notin {"undefined", "empty"}
  THEN IF result.url.kind = "malformed" THEN "TypeError: Invalid URL"
       ELSE IF /\ truthy(searchParamsGet(result.url, "userId"))
               /\ truthy(searchParamsGet(result.url, "secret"))
       THEN "createSession"
       ELSE "OAuth parameters not found in redirect URL"
  ELSE "OAuth flow did not complete successfully"

\* signInWithGoogle returning without looking at the confirming getCurrentUser
signInWithGoogleConfirm_unchecked(currentUser) == "success"

\* signInWithGoogle after its confirming getCurrentUser: the error it throws,
\* or "success" when it returns { type: 'success', user: currentUser }
signInWithGoogleConfirm(currentUser) ==
  IF currentUser # null THEN "success" ELSE "Session created but user not found"

\* googleSignIn publishing result.user, as its first integration did
userAfterSignInWithGoogle_fromResult(published, resultUser) == resultUser

\* googleSignIn only logs the result of signInWithGoogle: the published user
\* is left to checkCurrentUser
userAfterSignInWithGoogle(published, resultUser) == published

\* googleSignIn() is called: signInWithGoogle asks the backend for the login URL
googleSignInStart ==
  /\ \E t \in TaskIds :
       startTask(t, "googleSignIn", "google.createOAuth2Token", "account.createOAuth2Token")
  /\ signedOut' = FALSE
  /\ UNCHANGED <<user, userProfile, isLoading, mounted, backend>>

\* signInWithGoogle resumes with the login URL and opens the auth session
signInWithGoogleLoginUrl(t) ==
  /\ tasks[t].pc = "google.createOAuth2Token"
  /\ \E reply \in {"loginUrl"} \cup BackendErrors :
       IF reply = "loginUrl"
       THEN /\ Goto(t, "google.openAuthSessionAsync", <<"WebBrowser.openAuthSessionAsync">>)
            /\ UNCHANGED <<user, userProfile, isLoading>>
       ELSE googleSignInCatch(t, reply, <<"rejected: account.createOAuth2Token">>, null)
  /\ UNCHANGED <<mounted, backend, signedOut>>

\* signInWithGoogle giving the auth session up on a clock of its own
signInWithGoogleAgent_timesOut(t) ==
  /\ tasks[t].pc = "google.openAuthSessionAsync"
  /\ googleSignInCatch(t, "OAuth timed out", <<"timeout">>, null)
  /\ UNCHANGED <<mounted, backend, signedOut>>

\* the auth session ends
signInWithGoogleAgent(t) ==
  /\ tasks[t].pc = "google.openAuthSessionAsync"
  /\ \E result \in AgentResults \cup {Throw} :
       IF result = Throw
       THEN googleSignInCatch(t, "Error: WebBrowser",
                              <<"rejected: WebBrowser.openAuthSessionAsync">>, null)
       ELSE IF signInWithGoogleResult(result) = "createSession"
       THEN /\ tasks' = [tasks EXCEPT
                 ![t].pc = "google.createSession",
                 ![t].result = result,
                 ![t].credentials = [userId |-> searchParamsGet(result.url, "userId"),
                                     secret |-> searchParamsGet(result.url, "secret")],
                 ![t].trace = @ \o <<"account.createSession">>]
            /\ last' = NoLast
            /\ UNCHANGED <<user, userProfile, isLoading>>
       ELSE googleSignInCatch(t, signInWithGoogleResult(result),
                              <<"result.type", result.type>>, result)
  /\ UNCHANGED <<mounted, backend, signedOut>>

\* how often a call is in a trace
Count(call, trace) == Cardinality({i \in 1..Len(trace) : trace[i] = call})

\* signInWithGoogle trying the exchange a second time when the first is rejected
signInWithGoogleSession_retries(t) ==
  /\ tasks[t].pc = "google.createSession"
  /\ \E reply \in {"session"} \cup BackendErrors :
       IF reply = "session"
       THEN /\ Goto(t, "google.get", <<"account.get">>)
            /\ UNCHANGED <<user, userProfile, isLoading>>
       ELSE IF Count("account.createSession", tasks[t].trace) < 2
       THEN /\ Goto(t, "google.createSession",
                    <<"rejected: account.createSession", "account.createSession">>)
            /\ UNCHANGED <<user, userProfile, isLoading>>
       ELSE googleSignInCatch(t, reply, <<"rejected: account.createSession">>, tasks[t].result)
  /\ UNCHANGED <<mounted, backend, signedOut>>

\* signInWithGoogle resumes after account.createSession
signInWithGoogleSession(t) ==
  /\ tasks[t].pc = "google.createSession"
  /\ \E reply \in {"session"} \cup BackendErrors :
       IF reply = "session"
       THEN /\ Goto(t, "google.get", <<"account.get">>)
            /\ UNCHANGED <<user, userProfile, isLoading>>
       ELSE googleSignInCatch(t, reply, <<"rejected: account.createSession">>, tasks[t].result)
  /\ UNCHANGED <<mounted, backend, signedOut>>

\* signInWithGoogle resumes with the confirming getCurrentUser; googleSignIn
\* goes on to checkCurrentUser
googleSignIn(t) ==
  /\ tasks[t].pc = "google.get"
  /\ \E reply \in Backend_get :
       LET currentUser == getCurrentUser(reply)
           seen == IF currentUser = null THEN <<"confirm: no user">> ELSE <<>>
       IN  IF signInWithGoogleConfirm(currentUser) = "success"
           THEN /\ user' = userAfterSignInWithGoogle(user, currentUser)
                /\ enterCheckCurrentUser(t, tasks[t].op, tasks[t].trace \o seen)
                /\ UNCHANGED userProfile
           ELSE googleSignInCatch(t, signInWithGoogleConfirm(currentUser), seen,
                                  tasks[t].result)
  /\ UNCHANGED <<mounted, backend, signedOut>>

(***************************************************************************)
(* processOAuthCallback                                                    *)
(***************************************************************************)
\* the try block returning the two values under each other's name
processOAuthCallbackTry_swapped(callbackUrl) ==
  IF callbackUrl.kind # "url" THEN [threw |-> "TypeError: Invalid URL"]
  ELSE LET secret == searchParamsGet(callbackUrl, "secret")
           userId == searchParamsGet(callbackUrl, "userId")
       IN  IF ~truthy(userId) \/ ~truthy(secret)
           THEN [threw |-> "Invalid OAuth callback parameters"]
           ELSE [userId |-> secret, secret |-> userId]

\* the try block of processOAuthCallback: what it returns, or the message of
\* the error thrown inside it
processOAuthCallbackTry(callbackUrl) ==
  IF callbackUrl.kind # "url" THEN [threw |-> "TypeError: Invalid URL"]
  ELSE LET secret == searchParamsGet(callbackUrl, "secret")
           userId == searchParamsGet(callbackUrl, "userId")
       IN  IF ~truthy(userId) \/ ~truthy(secret)
           THEN [threw |-> "Invalid OAuth callback parameters"]
           ELSE [userId |-> userId, secret |-> secret]

Threw(outcome) == "threw" \in DOMAIN outcome

\* processOAuthCallback: its catch block receives every error thrown in the
\* try block, the one for the missing parameters included, and throws its own
processOAuthCallback(callbackUrl) ==
  LET outcome == processOAuthCallbackTry(callbackUrl)
  IN  IF Threw(outcome) THEN [threw |-> "Invalid OAuth callback URL format"]
      ELSE outcome

\* const result = await WebBrowser.openAuthSessionAsync(loginUrl, scheme)
openAuthSessionForCallback ==
  /\ \E t \in TaskIds :
       /\ FreeSlot(t)
       /\ tasks' = [tasks EXCEPT ![t] =
            [Idle EXCEPT !.op = "processOAuthCallback",
                         !.pc = "callback.openAuthSessionAsync",
                         !.trace = <<"WebBrowser.openAuthSessionAsync">>]]
  /\ last' = NoLast
  /\ UNCHANGED <<user, userProfile, isLoading, mounted, backend, signedOut>>

\* const oauthParams = processOAuthCallback(result.url); return oauthParams
processOAuthCallbackResult(t) ==
  /\ tasks[t].pc = "callback.openAuthSessionAsync"
  /\ \E url \in CallbackInputs :
       LET outcome == processOAuthCallback(url)
           result == [type |-> "success", url |-> url]
       IN  IF Threw(outcome)
           THEN SettleResult(t, "rejected", outcome.threw, "", <<"processOAuthCallback">>,
                             null, result)
           ELSE /\ tasks' = [tasks EXCEPT ![t] = Idle]
                /\ last' = [NoLast EXCEPT !.op = "processOAuthCallback",
                                          !.status = "resolved",
                                          !.trace = tasks[t].trace \o <<"processOAuthCallback">>,
                                          !.credentials = outcome,
                                          !.result = result]
  /\ UNCHANGED <<user, userProfile, isLoading, mounted, backend, signedOut>>

(***************************************************************************)
(* logout                                                                  *)
(***************************************************************************)
\* logout() is called: setIsLoading(true), signOut asks to delete the session
logoutStart ==
  /\ \E t \in TaskIds :
       startTask(t, "logout", "logout.deleteSession", "account.deleteSession")
  /\ isLoading' = TRUE
  /\ signedOut' = FALSE
  /\ UNCHANGED <<user, userProfile, mounted, backend>>

\* logout resumes after signOut: both the try and the catch branch
\* setUser(null), and finally setIsLoading(false)
logout(t) ==
  /\ tasks[t].pc = "logout.deleteSession"
  /\ \E reply \in {"deleted"} \cup BackendErrors :
       /\ user' = null
       /\ isLoading' = FALSE
       /\ Settle(t, "resolved", "", IF reply = "deleted" THEN "" ELSE reply,
                 IF reply = "deleted" THEN <<>> ELSE <<"rejected: account.deleteSession">>)
  /\ signedOut' = TRUE
  /\ UNCHANGED <<userProfile, mounted, backend>>

(***************************************************************************)
(* Specification                                                           *)
(***************************************************************************)
\* no call of AuthProvider is in flight
Quiescent == \A t \in TaskIds : tasks[t] = Idle

\* a call resumes from its await
Resume ==
  \E t \in TaskIds :
    \/ checkAndRefreshOAuthTokens(t)
    \/ refreshOAuthSession(t)
    \/ checkCurrentUser(t)
    \/ fetchUserProfile(t)
    \/ fetchUserProfileFromSession(t)
    \/ fetchUserProfileIdentities(t)
    \/ fetchUserProfileFromIdentity(t)
    \/ signin(t)
    \/ signupCreateAccount(t)
    \/ signupSignIn(t)
    \/ signInWithGoogleLoginUrl(t)
    \/ signInWithGoogleAgent(t)
    \/ signInWithGoogleSession(t)
    \/ googleSignIn(t)
    \/ logout(t)

\* the intended usage: one caller at a time, the next call starts when the
\* previous one has settled
Next ==
  \/ Mount
  \/ Quiescent /\ refreshAuthState
  \/ Quiescent /\ signinStart
  \/ Quiescent /\ signupStart
  \/ Quiescent /\ googleSignInStart
  \/ Quiescent /\ logoutStart
  \/ Resume

Spec == Init /\ [][Next]_vars

\* the same calls against a backend that stays in one state
InitPinned ==
  /\ Constructed
  /\ backend \in Backends

SpecPinned == InitPinned /\ [][Next]_vars

\* the backends of the runs in which calls overlap
UIBackends ==
  { b \in Backends :
      /\ b.user \in {Throw, [id |-> "u1", name |-> "Ann", email |-> "a@x.com"]}
      /\ b.session \in { null,
                          [provider |-> Str_oauth2, providerAccessToken |-> ""],
                          [provider |-> Str_google, providerAccessToken |-> "ya29.sess"] }
      /\ b.identities \in { [identities |-> <<>>],
                             [identities |-> <<Identity(Str_google, "ya29.id", DateExpiry(0))>>] }
      /\ b.sessionProfile # Throw
      /\ b.identityProfile = [name |-> "Ada", picture |-> "http://p.png"] }

InitUI ==
  /\ Constructed
  /\ backend \in UIBackends

\* the calls as the screens make them: the root layout shows the screens, and
\* with them the controls and the callback routes that call AuthProvider,
\* only while isLoading is false; a call already in flight does not keep the
\* next one from starting
NextUI ==
  \/ Mount
  \/ ~isLoading /\ refreshAuthState
  \/ ~isLoading /\ signinStart
  \/ ~isLoading /\ signupStart
  \/ ~isLoading /\ googleSignInStart
  \/ ~isLoading /\ logoutStart
  \/ Resume

SpecUI == InitUI /\ [][NextUI]_vars

\* the backend call that checkCurrentUser of call t awaits returns or fails
RefreshResume(t) ==
  \/ checkAndRefreshOAuthTokens(t)
  \/ refreshOAuthSession(t)
  \/ checkCurrentUser(t)
  \/ fetchUserProfile(t)
  \/ fetchUserProfileFromSession(t)
  \/ fetchUserProfileIdentities(t)
  \/ fetchUserProfileFromIdentity(t)

\* every backend call awaited by a checkCurrentUser eventually returns or
\* fails; nothing is assumed of the other awaits (the external agent may never
\* return)
FairSpec == Spec /\ \A t \in TaskIds : WF_vars(RefreshResume(t))

\* refresh() called by any caller at any time, also while an earlier call is
\* still in flight (refreshAuthState is handed out through the context, and
\* signin, signup and googleSignIn enter checkCurrentUser with no guard)
NextOverlap ==
  \/ Mount
  \/ refreshAuthState
  \/ \E t \in TaskIds : RefreshResume(t)

\* the backends of the overlapping runs: the rest of the backend stays as it is
OverlapBackends ==
  { [b EXCEPT !.user = Intermittent(b.user)] : b \in {c \in UIBackends : c.user # Throw} }

InitOverlap ==
  /\ Constructed
  /\ backend \in OverlapBackends

\* overlapping runs of checkCurrentUser and nothing else
SpecOverlap == InitOverlap /\ [][NextOverlap]_vars

\* the identity lists searched: every provider spelling, two identities of
\* each to tell the first match from a later one
FindIdentities ==
  { Identity(p, tok, EmptyExpiry) :
      p \in {Str_google, Str_Google, Str_google_oauth2, Str_github, NoProvider},
      tok \in {"tok.a", "tok.b"} }

FindInputs == UNION { [1..n -> FindIdentities] : n \in 0..MaxFind }

\* identities.identities.find(identity => ...) is evaluated on a list
findGoogleIdentityCall ==
  /\ Quiescent
  /\ \E list \in FindInputs :
       last' = [NoLast EXCEPT
                  !.op = "findGoogleIdentity",
                  !.status = "resolved",
                  !.trace = <<"identities.find">>,
                  !.result = [identities |-> list, found |-> findGoogleIdentity(list)]]
  /\ UNCHANGED <<user, userProfile, isLoading, mounted, tasks, backend, signedOut>>

\* the search for the Google identity on its own
SpecFind == Init /\ [][findGoogleIdentityCall]_vars

\* the expiry strings handed to isTokenExpired
ExpiryInputs ==
  {AbsentExpiry, EmptyExpiry, InvalidExpiry} \cup {DateExpiry(t) : t \in 0..MaxExpiry}

\* isTokenExpired(expiryDateString) is called when the clock reads now
isTokenExpiredCall ==
  /\ Quiescent
  /\ \E expiryDateString \in ExpiryInputs, now \in 0..MaxNow :
       last' = [NoLast EXCEPT
                  !.op = "isTokenExpired",
                  !.status = "resolved",
                  !.trace = <<"isTokenExpired">>,
                  !.result = [expiry |-> expiryDateString, now |-> now,
                              isExpired |-> isTokenExpired(expiryDateString, now)]]
  /\ UNCHANGED <<user, userProfile, isLoading, mounted, tasks, backend, signedOut>>

\* the token policy on its own
SpecTokenExpiry == Init /\ [][isTokenExpiredCall]_vars

\* the deep-link handling on its own: the auth session is awaited and its
\* URL is handed to processOAuthCallback
NextCallback ==
  \/ Quiescent /\ openAuthSessionForCallback
  \/ \E t \in TaskIds : processOAuthCallbackResult(t)

SpecCallback == Init /\ [][NextCallback]_vars

TypeOK ==
  /\ user \in {null} \cup Users
  /\ isLoading \in BOOLEAN
  /\ mounted \in BOOLEAN
  /\ \A t \in TaskIds : tasks[t].op \in Ops \cup {"idle", "processOAuthCallback"}

(***************************************************************************)
(* Properties                                                              *)
(***************************************************************************)
\* where checkCurrentUser starts in a trace, 0 when it was not run
RefreshStart(trace) ==
  IF InTrace("checkCurrentUser", trace)
  THEN CHOOSE i \in 1..Len(trace) : trace[i] = "checkCurrentUser"
  ELSE 0

\* the places of a call made inside checkCurrentUser
RefreshCalls(call, trace) ==
  IF RefreshStart(trace) = 0 THEN {}
  ELSE { i \in (RefreshStart(trace) + 1)..Len(trace) : trace[i] = call }

\* C1: refresh() never throws: a call that ran checkCurrentUser, whatever the
\* backend answered to listIdentities, refreshSession, getCurrentUser,
\* getCurrentSession and the profile fetch, resolves.
C1_RefreshNeverThrows ==
  InTrace("checkCurrentUser", last.trace) => last.status = "resolved"

\* a refresh whose session refresh was rejected has settled
C1_Witness ==
  /\ last.op = "checkCurrentUser"
  /\ InTrace("rejected: account.updateSession", last.trace)

\* C2: signOut() never raises and ends with user absent, profile absent and
\* isLoading false, whether deleteSession succeeds or raises, from any state.
C2_SignOutEndsUnauthenticated ==
  last.op = "logout" =>
    /\ last.status = "resolved"
    /\ user = null
    /\ userProfile = null
    /\ isLoading = FALSE

\* C3: profile is never set while user is absent.
C3_ProfileOnlyWithUser == userProfile # null => user # null

\* C4: when signin, signup or googleSignIn fails, the error reaches the caller
\* and both user and profile are absent.
C4_FailureLeavesUnauthenticated ==
  (last.op \in {"signin", "signup", "googleSignIn"} /\ last.caught # "") =>
    /\ last.status = "rejected"
    /\ user = null
    /\ userProfile = null

\* C5: signInWithPassword: when the password-session creation fails, user is
\* cleared, the same error is re-thrown, and refresh() is not run
\* (getCurrentUser is not called) for that attempt.
C5_SigninFailure ==
  (last.op = "signin" /\ InTrace("rejected: account.createEmailPasswordSession", last.trace)) =>
    /\ last.status = "rejected"
    /\ last.error = last.caught
    /\ last.error \in BackendErrors
    /\ user = null
    /\ ~InTrace("checkCurrentUser", last.trace)
    /\ ~InTrace("account.get", last.trace)

\* a signin whose session creation was rejected has settled, from a state
\* that had a profile
C5_Witness ==
  /\ last.op = "signin"
  /\ InTrace("rejected: account.createEmailPasswordSession", last.trace)
  /\ userProfile # null

\* C6: every non-absent value published as user is the value a getCurrentUser
\* call made inside refresh() returned; no other step publishes a user.
C6_SingleSourceOfTruth ==
  [][ (user' # user /\ user' # null) =>
        \E t \in TaskIds : /\ tasks[t].pc = "check.get"
                           /\ tasks'[t].pc = "profile.getCurrentSession"
                           /\ tasks'[t].currentUser = user' ]_vars

\* a delegated sign-in has completed and a user is published
C6_Witness ==
  /\ last.op = "googleSignIn"
  /\ last.status = "resolved"
  /\ user # null

C8_CancelLeavesUnauthenticated ==
  (/\ last.op = "googleSignIn"
   /\ Len(last.trace) >= 2
   /\ last.trace[Len(last.trace) - 1] = "result.type"
   /\ last.trace[Len(last.trace)] = "cancel") =>
    /\ last.status = "rejected"
    /\ last.error = "OAuth cancelled by user"
    /\ ~InTrace("account.createSession", last.trace)
    /\ user = null
    /\ userProfile = null

\* C9: a delegated sign-in whose credential exchange succeeded and whose
\* confirming getCurrentUser returned absent fails with the user-missing
\* error, does not run refresh(), and leaves user absent.
C9_SessionButNoUser ==
  (last.op = "googleSignIn" /\ InTrace("confirm: no user", last.trace)) =>
    /\ last.status = "rejected"
    /\ last.error = "Session created but user not found"
    /\ InTrace("account.createSession", last.trace)
    /\ ~InTrace("checkCurrentUser", last.trace)
    /\ user = null

\* a delegated sign-in whose confirming getCurrentUser returned absent has settled
C9_Witness ==
  /\ last.op = "googleSignIn"
  /\ InTrace("confirm: no user", last.trace)

\* the order C10 asks of one refresh, given its calls so far
RefreshBeforeRead(trace, policyExpired) ==
  LET gets == RefreshCalls("account.get", trace)
      updates == RefreshCalls("account.updateSession", trace)
      reads == RefreshCalls("account.listIdentities", trace) \ {RefreshStart(trace) + 1}
  IN  /\ (policyExpired /\ gets # {}) => updates # {}
      /\ \A u \in updates : \A g \in gets \cup reads : u < g

\* C10: within one refresh(), when the token of the resolved provider identity
\* is expired or expiring by isTokenExpired, refreshSession() is invoked and
\* settles before getCurrentUser is called and before the identities are read
\* for the profile; it is never invoked after getCurrentUser.
C10_RefreshBeforeUser ==
  /\ \A t \in TaskIds : RefreshBeforeRead(tasks[t].trace, tasks[t].policyExpired)
  /\ RefreshBeforeRead(last.trace, last.policyExpired)

HappyPathBackend ==
  /\ backend.pinned
  /\ backend.user # Throw
  /\ backend.identities # Throw
  /\ Len(backend.identities.identities) = 1
  /\ backend.identities.identities[1].provider = Str_google
  /\ truthy(backend.identities.identities[1].providerAccessToken)
  /\ backend.identityProfile # Throw
  /\ truthy(backend.identityProfile.name)
  /\ truthy(backend.identityProfile.picture)

C13_SignedOutStaysAbsent == signedOut => user = null

\* the calls of AuthProvider that have started and not yet completed
InFlight == {t \in TaskIds : tasks[t] # Idle}

\* C14: with the screens starting signin, signup and the delegated sign-in
\* only while isLoading is false, at most one call is in flight at a time: no
\* second call is started while an earlier one, its session-creation call or
\* its wait for the external agent included, has not completed.
C14_OneAttemptAtATime == Cardinality(InFlight) <= 1

\* C15: whenever no call is in flight, the {user, userProfile} pair is the
\* result of the call that completed last: both absent after a logout, a
\* rejected call or a refresh that found no user, and otherwise the user that
\* call read together with a profile of that user; nothing written by an
\* earlier call, and no partial write, is left.
C15_LastCompletedWins ==
  (Quiescent /\ last.op # "none") =>
    IF last.op = "logout" \/ last.status = "rejected" \/ last.currentUser = null
    THEN user = null /\ userProfile = null
    ELSE /\ user = last.currentUser
         /\ userProfile # null
         /\ userProfile.email = last.currentUser.email

\* C16 as stated: in every state where isLoading is true, a call has started
\* and not yet completed.
C16_LoadingOnlyInFlight == isLoading => InFlight # {}

\* C16 as the code has it: isLoading is true only while a call is in flight or
\* while the provider is constructed and its startup check has not started
\* yet; once the startup check has started, isLoading is never left true when
\* every call has completed.
C16_LoadingOnlyInFlightOrStartup == isLoading => (~mounted \/ InFlight # {})

\* isLoading is true while a logout is in flight
C16_Witness ==
  /\ mounted
  /\ isLoading
  /\ \E t \in InFlight : tasks[t].op = "logout"

\* C17: provided each backend call it awaits returns or fails, every
\* checkCurrentUser that has started eventually completes, in a state where
\* isLoading is false.
C17_RefreshCompletes ==
  \A t \in TaskIds : InRefresh(t) ~> (tasks[t] = Idle /\ ~isLoading)

\* a checkCurrentUser that awaited every backend call of its longest path, the
\* last one failing, has completed
C17_Witness ==
  /\ last.op = "checkCurrentUser"
  /\ last.status = "resolved"
  /\ InTrace("account.updateSession", last.trace)
  /\ InTrace("rejected: fetch", last.trace)
  /\ Quiescent
  /\ ~isLoading

\* C18: a checkCurrentUser that follows a completed checkCurrentUser, with
\* the backend (user, session, identities, external profile) in the same
\* state for both, ends with the {user, userProfile} pair the first one ended
\* with.
C18_RefreshIdempotent ==
  (last.op = "checkCurrentUser" /\ last.status = "resolved" /\ last.before.afterRefresh) =>
    /\ user = last.before.user
    /\ userProfile = last.before.userProfile

\* a second checkCurrentUser has completed with an enriched profile
C18_Witness ==
  /\ last.op = "checkCurrentUser"
  /\ last.status = "resolved"
  /\ last.before.afterRefresh
  /\ user # null
  /\ userProfile # null
  /\ userProfile.avatar # undefined

\* the checkCurrentUser started by the effect of AuthProvider is in flight
StartupInFlight ==
  \E t \in InFlight : Len(tasks[t].trace) >= 1 /\ tasks[t].trace[1] = "useEffect"

\* C19: the provider starts with isLoading true and user and userProfile
\* absent; the first thing that happens is the checkCurrentUser of the effect,
\* whatever the backend holds, and it is started once; isLoading stays true
\* from the initial state until that checkCurrentUser completes.
C19_Initialize ==
  /\ (isLoading = TRUE /\ user = null /\ userProfile = null /\ mounted = FALSE /\ InFlight = {})
  /\ [][ /\ ~mounted => (mounted' /\ StartupInFlight' /\ isLoading' = TRUE)
         /\ StartupInFlight => (isLoading = TRUE /\ (StartupInFlight' => isLoading' = TRUE))
         /\ mounted => (StartupInFlight' => StartupInFlight) ]_vars

\* the checkCurrentUser of the effect has completed and found a user
C19_Witness ==
  /\ last.op = "checkCurrentUser"
  /\ last.status = "resolved"
  /\ Len(last.trace) >= 1
  /\ last.trace[1] = "useEffect"
  /\ user # null
  /\ ~isLoading

\* C20: during checkCurrentUser the userinfo endpoint is only ever fetched
\* with the token of an identity answered by listIdentities, never with the
\* session's providerAccessToken.
C20_TokenFromIdentityOnly ==
  /\ \A t \in TaskIds : ~InTrace("fetch: session token", tasks[t].trace)
  /\ ~InTrace("fetch: session token", last.trace)

\* the calls fetchUserProfile made after it asked for the session
ProfileCalls(trace) ==
  IF InTrace("getCurrentSession", trace)
  THEN SubSeq(trace, (CHOOSE i \in 1..Len(trace) : trace[i] = "getCurrentSession") + 1,
              Len(trace))
  ELSE <<>>

\* C21: when the fetch of the external profile, or the listIdentities that
\* feeds it, fails inside fetchUserProfile, the call resolves with user set
\* and userProfile = {name: user.name or "User", email: user.email or "",
\* avatar: absent}; no error is raised.
C21_EnrichmentFailureNotFatal ==
  (/\ last.op # "none"
   /\ \/ InTrace("rejected: fetch", ProfileCalls(last.trace))
      \/ InTrace("rejected: account.listIdentities", ProfileCalls(last.trace))) =>
    /\ last.status = "resolved"
    /\ last.error = ""
    /\ last.currentUser # null
    /\ user = last.currentUser
    /\ userProfile = baseProfile(last.currentUser)

\* the fetch with the identity's token failed for a user without a name
C21_Witness ==
  /\ last.op = "checkCurrentUser"
  /\ InTrace("fetch: identity token", last.trace)
  /\ InTrace("rejected: fetch", ProfileCalls(last.trace))
  /\ user # null
  /\ userProfile # null
  /\ userProfile.name = "User"

\* the backend holds an oauth2 session and a Google identity whose access
\* token is empty or absent
IdentityWithoutToken ==
  /\ backend.pinned
  /\ backend.user # Throw
  /\ backend.session \notin {Throw, null}
  /\ backend.session.provider = Str_oauth2
  /\ backend.identities # Throw
  /\ findGoogleIdentity(backend.identities.identities) # null
  /\ findGoogleIdentity(backend.identities.identities).providerAccessToken \in {"", undefined}

\* C22: with an empty or absent access token the profile is the base profile
\* on every field, the userinfo endpoint is not fetched, and the call
\* resolves.
C22_NoTokenNoFetch ==
  (IdentityWithoutToken /\ last.op # "none" /\ InTrace("checkCurrentUser", last.trace)) =>
    /\ last.status = "resolved"
    /\ last.error = ""
    /\ userProfile = baseProfile(backend.user)
    /\ ~InTrace("fetch: identity token", last.trace)
    /\ ~InTrace("fetch: session token", last.trace)

\* a checkCurrentUser has completed against a Google identity whose token is absent
C22_Witness ==
  /\ IdentityWithoutToken
  /\ findGoogleIdentity(backend.identities.identities).providerAccessToken = undefined
  /\ last.op = "checkCurrentUser"
  /\ last.status = "resolved"
  /\ InTrace("account.listIdentities", ProfileCalls(last.trace))
  /\ userProfile # null

\* the backend holds an oauth2 session, a Google identity with a token, and
\* the userinfo endpoint answers that token
EnrichingBackend ==
  /\ backend.pinned
  /\ backend.user # Throw
  /\ backend.session \notin {Throw, null}
  /\ backend.session.provider = Str_oauth2
  /\ backend.identities # Throw
  /\ findGoogleIdentity(backend.identities.identities) # null
  /\ truthy(findGoogleIdentity(backend.identities.identities).providerAccessToken)
  /\ backend.identityProfile # Throw

\* C23: after a successful fetch of the external profile, name and avatar are
\* taken from the response only where it provides them: without a name the
\* base name stays, without a picture the base avatar stays, and the email is
\* the user's in every case.
C23_OverlayOnlyProvidedFields ==
  (EnrichingBackend /\ last.op # "none" /\ InTrace("checkCurrentUser", last.trace)) =>
    /\ userProfile # null
    /\ userProfile.name = IF truthy(backend.identityProfile.name)
                          THEN backend.identityProfile.name
                          ELSE baseProfile(backend.user).name
    /\ userProfile.avatar = IF truthy(backend.identityProfile.picture)
                            THEN backend.identityProfile.picture
                            ELSE baseProfile(backend.user).avatar
    /\ userProfile.email = baseProfile(backend.user).email

\* the calls made after account.updateSession was rejected
AfterRefreshFailure(trace) ==
  IF InTrace("rejected: account.updateSession", trace)
  THEN SubSeq(trace,
              (CHOOSE i \in 1..Len(trace) : trace[i] = "rejected: account.updateSession") + 1,
              Len(trace))
  ELSE <<>>

\* C24: when the session refresh fails inside checkCurrentUser the failure is
\* absorbed: getCurrentUser is still called, the call resolves, isLoading is
\* false, and what is published is the user getCurrentUser answered with a
\* profile of that user, or nothing when it answered none.
C24_RefreshFailureAbsorbed ==
  (last.op # "none" /\ InTrace("rejected: account.updateSession", last.trace)) =>
    /\ last.status = "resolved"
    /\ last.error = ""
    /\ InTrace("account.get", AfterRefreshFailure(last.trace))
    /\ ~isLoading
    /\ user = last.currentUser
    /\ IF last.currentUser = null
       THEN userProfile = null
       ELSE userProfile # null /\ userProfile.email = baseProfile(last.currentUser).email

\* a sign-in whose session refresh failed has published a user and an
\* enriched profile
C24_Witness ==
  /\ last.op = "signin"
  /\ InTrace("rejected: account.updateSession", last.trace)
  /\ user # null
  /\ userProfile # null
  /\ userProfile.avatar = "http://p.png"

\* the URL carries a non-empty value for the query parameter
Carries(url, name) ==
  /\ url.kind = "url"
  /\ \E i \in 1..Len(url.query) : url.query[i][1] = name /\ url.query[i][2] # ""

\* the errors signInWithGoogle throws for a result it got from the agent
UserCancelled == "OAuth cancelled by user"
ExternalFailure == "OAuth flow did not complete successfully"
ParserErrors == {"TypeError: Invalid URL", "OAuth parameters not found in redirect URL"}

\* C25: every result of the auth session gets exactly one outcome: type
\* cancel throws the cancellation error; type success with a URL goes to the
\* parsing of the URL (and ends there with a parser error, or goes on to the
\* session); every other result throws the did-not-complete error.
\* account.createSession is called only after a success result whose URL
\* carries a non-empty userId and a non-empty secret.
C25_AgentResultClassified ==
  /\ (last.op = "googleSignIn" /\ last.result # null) =>
        LET result == last.result
            created == InTrace("account.createSession", last.trace)
        IN  IF result.type = "cancel"
            THEN last.status = "rejected" /\ last.error = UserCancelled /\ ~created
            ELSE IF result.type = "success" /\ result.url.kind \notin {"undefined", "empty"}
            THEN /\ last.error \notin {UserCancelled, ExternalFailure}
                 /\ created \/ (last.status = "rejected" /\ last.error \in ParserErrors)
                 /\ created <=> (Carries(result.url, "userId") /\ Carries(result.url, "secret"))
            ELSE last.status = "rejected" /\ last.error = ExternalFailure /\ ~created
  /\ \A t \in InFlight :
        InTrace("account.createSession", tasks[t].trace) =>
          /\ tasks[t].result # null
          /\ tasks[t].result.type = "success"
          /\ Carries(tasks[t].result.url, "userId")
          /\ Carries(tasks[t].result.url, "secret")
  /\ InTrace("account.createSession", last.trace) => last.result # null

\* a success result whose URL carries the userId and no secret was rejected
\* by the parsing of the URL
C25_Witness ==
  /\ last.op = "googleSignIn"
  /\ last.result # null
  /\ last.result.type = "success"
  /\ Carries(last.result.url, "userId")
  /\ ~Carries(last.result.url, "secret")
  /\ last.error \in ParserErrors

\* C26: when account.createSession rejects, googleSignIn rejects with the
\* same error, createSession was called once, and neither the confirming
\* getCurrentUser nor checkCurrentUser is run; no flow calls createSession
\* more than once.
C26_SessionRejectionPropagates ==
  /\ (last.op = "googleSignIn" /\ InTrace("rejected: account.createSession", last.trace)) =>
        /\ last.status = "rejected"
        /\ last.error \in BackendErrors
        /\ last.error = last.caught
        /\ Count("account.createSession", last.trace) = 1
        /\ ~InTrace("account.get", last.trace)
        /\ ~InTrace("checkCurrentUser", last.trace)
  /\ Count("account.createSession", last.trace) <= 1
  /\ \A t \in InFlight : Count("account.createSession", tasks[t].trace) <= 1

\* a delegated sign-in has been rejected by account.createSession
C26_Witness ==
  /\ last.op = "googleSignIn"
  /\ last.status = "rejected"
  /\ InTrace("rejected: account.createSession", last.trace)
  /\ last.credentials = [userId |-> "u2", secret |-> "s1"]

\* the errors of the callback parsing
InvalidCallbackFormat == "Invalid OAuth callback URL format"
MissingCredentials == "Invalid OAuth callback parameters"

\* C27: processOAuthCallback fails with the missing-parameters error for
\* every well-formed URL in which userId or secret is absent or empty, and
\* with the URL-format error for every string that is not a URL, so that the
\* caller can tell the two apart.
C27_ParserErrorKinds ==
  (last.op = "processOAuthCallback" /\ last.result # null) =>
    LET url == last.result.url
    IN  /\ url.kind # "url" =>
              (last.status = "rejected" /\ last.error = InvalidCallbackFormat)
        /\ (url.kind = "url" /\ ~(Carries(url, "userId") /\ Carries(url, "secret"))) =>
              (last.status = "rejected" /\ last.error = MissingCredentials)

\* the places of a query parameter in a URL
Places(url, name) == {i \in 1..Len(url.query) : url.query[i][1] = name}

\* the URL has the parameter once, with a non-empty value
Once(url, name) ==
  /\ url.kind = "url"
  /\ Cardinality(Places(url, name)) = 1
  /\ \A i \in Places(url, name) : url.query[i][2] # ""

\* C28: for a well-formed URL whose query has a non-empty userId and a
\* non-empty secret, processOAuthCallback returns exactly these two values,
\* in whatever order the parameters come and whatever other parameters there
\* are; it changes nothing of the provider's state.
C28_ParserReturnsCredentials ==
  (/\ last.op = "processOAuthCallback"
   /\ last.result # null
   /\ Once(last.result.url, "userId")
   /\ Once(last.result.url, "secret")) =>
    LET url == last.result.url
    IN  /\ last.status = "resolved"
        /\ last.error = ""
        /\ \A i \in Places(url, "userId") : last.credentials.userId = url.query[i][2]
        /\ \A i \in Places(url, "secret") : last.credentials.secret = url.query[i][2]
        /\ DOMAIN last.credentials = {"userId", "secret"}
        /\ user = null /\ userProfile = null /\ isLoading /\ ~mounted

\* the secret came first and another parameter stood between the two
C28_Witness ==
  /\ last.op = "processOAuthCallback"
  /\ last.status = "resolved"
  /\ last.result # null
  /\ last.result.url.query = << <<"secret", "v2">>, <<"state", "v1">>, <<"userId", "v1">> >>
  /\ last.credentials = [userId |-> "v1", secret |-> "v2"]

\* C29: for an expiry date, isTokenExpired answers true exactly when the date
\* is at or before now + 5 minutes: true for a date in the past, for one 4
\* minutes ahead and for one exactly 5 minutes ahead, false for every later
\* one, 60 minutes ahead included.
C29_ExpiredWithinLookahead ==
  (last.op = "isTokenExpired" /\ last.result.expiry.kind = "date") =>
    LET expiry == last.result.expiry.t
        now == last.result.now
    IN  /\ last.result.isExpired <=> (expiry <= now + FiveMinutes)
        /\ expiry < now => last.result.isExpired
        /\ expiry = now + 4 => last.result.isExpired
        /\ expiry = now + FiveMinutes => last.result.isExpired
        /\ expiry = now + 60 => ~last.result.isExpired

\* a date exactly five minutes ahead was found expired
C29_Witness ==
  /\ last.op = "isTokenExpired"
  /\ last.result.expiry.kind = "date"
  /\ last.result.now = 1
  /\ last.result.expiry.t = 1 + FiveMinutes
  /\ last.result.isExpired

\* C30: isTokenExpired answers true for an absent timestamp and for one that
\* cannot be parsed.
C30_UnparseableIsExpired ==
  (last.op = "isTokenExpired" /\ last.result.expiry.kind # "date") => last.result.isExpired

\* the provider spellings that contain "google" when case is ignored
GoogleSpellings == {Str_google, Str_Google, Str_google_oauth2}

\* C31: the search returns the first identity in list order whose provider
\* contains "google" whatever the case ("google", "google-oauth2" and
\* "Google" match), and nothing when no provider contains it or the provider
\* field is missing.
C31_FirstMatchingIdentity ==
  last.op = "findGoogleIdentity" =>
    LET list == last.result.identities
        matches == {i \in 1..Len(list) : list[i].provider \in GoogleSpellings}
    IN  IF matches = {}
        THEN last.result.found = null
        ELSE \E i \in matches : /\ \A j \in matches : i <= j
                                 /\ last.result.found = list[i]

\* "Google" was found behind an identity without provider and before a
\* second Google identity
C31_Witness ==
  /\ last.op = "findGoogleIdentity"
  /\ Len(last.result.identities) = 3
  /\ last.result.identities[1].provider = NoProvider
  /\ last.result.identities[2] = Identity(Str_Google, "tok.b", EmptyExpiry)
  /\ last.result.identities[3] = Identity(Str_google, "tok.a", EmptyExpiry)
  /\ last.result.found = last.result.identities[2]

\* the places of a call in a trace
CallPlaces(call, trace) == {i \in 1..Len(trace) : trace[i] = call}

\* the steps of signup in a trace come in the order of the code: createAccount
\* first, signIn only behind a createAccount that did not throw,
\* checkCurrentUser only behind a signIn that did not throw
SignupInOrder(trace) ==
  /\ CallPlaces("account.create", trace) = {1}
  /\ Cardinality(CallPlaces("account.createEmailPasswordSession", trace)) <= 1
  /\ Cardinality(CallPlaces("checkCurrentUser", trace)) <= 1
  /\ \A i \in CallPlaces("account.createEmailPasswordSession", trace) :
       /\ i = 2
       /\ \A j \in CallPlaces("checkCurrentUser", trace) : j = 3
  /\ CallPlaces("checkCurrentUser", trace) # {} =>
       CallPlaces("account.createEmailPasswordSession", trace) # {}
  /\ InTrace("rejected: account.create", trace) =>
       /\ ~InTrace("account.createEmailPasswordSession", trace)
       /\ ~InTrace("checkCurrentUser", trace)
  /\ InTrace("rejected: account.createEmailPasswordSession", trace) =>
       ~InTrace("checkCurrentUser", trace)

\* C32: signUp runs createAccount, then the password session, then refresh(),
\* in this order: the session is never requested after createAccount failed,
\* refresh() is never run after either step failed, and when the password
\* sign-in fails behind a created account the same error propagates and user
\* is absent.
C32_SignupInOrder ==
  /\ \A t \in TaskIds : tasks[t].op = "signup" => SignupInOrder(tasks[t].trace)
  /\ last.op = "signup" =>
       /\ SignupInOrder(last.trace)
       /\ InTrace("rejected: account.createEmailPasswordSession", last.trace) =>
            /\ last.status = "rejected"
            /\ last.error = last.caught
            /\ last.error \in BackendErrors
            /\ user = null

\* a signup whose account was created and whose sign-in was rejected has
\* settled
C32_Witness ==
  /\ last.op = "signup"
  /\ last.trace = <<"account.create", "account.createEmailPasswordSession",
                    "rejected: account.createEmailPasswordSession">>
  /\ last.status = "rejected"

\* the delegated sign-in settled on the agent's result of type cancel
SettledOnCancel ==
  /\ last.op = "googleSignIn"
  /\ Len(last.trace) >= 2
  /\ last.trace[Len(last.trace) - 1] = "result.type"
  /\ last.trace[Len(last.trace)] = "cancel"

\* C33: a delegated sign-in cancelled by the user fails with an error no
\* other failure has, and the sign-in screen shows no error dialog for it;
\* every other failure of signin or of the delegated sign-in shows a message
\* and leaves user absent, so the authentication screen stays.
C33_CancelShowsNoDialog ==
  (last.op \in {"signin", "googleSignIn"} /\ last.status = "rejected") =>
    IF SettledOnCancel
    THEN /\ last.error = UserCancelled
         /\ last.alert = null
    ELSE /\ last.error # UserCancelled
         /\ last.alert # null
         /\ truthy(last.alert.message)
         /\ user = null

\* the call is waiting in await WebBrowser.openAuthSessionAsync(...)
AwaitingExternalAgent(t) == tasks[t].pc = "google.openAuthSessionAsync"

\* C34: the wait for the external agent has no timeout of its own: a call
\* leaves await WebBrowser.openAuthSessionAsync only in a step that takes what
\* the agent reported, a success, a cancel, a dismissal or a failure of the
\* agent; no step of another call and no clock ends the wait.
C34_OnlyAgentEndsWait ==
  [][ \A t \in TaskIds :
        (AwaitingExternalAgent(t) /\ tasks'[t] # tasks[t]) =>
          \/ /\ tasks'[t].pc = "google.createSession"
             /\ tasks'[t].result \in AgentResults
             /\ tasks'[t].result.type = "success"
             /\ tasks'[t].trace = tasks[t].trace \o <<"account.createSession">>
          \/ /\ tasks'[t] = Idle
             /\ last'.op = "googleSignIn"
             /\ last'.status = "rejected"
             /\ \/ /\ last'.result \in AgentResults
                   /\ last'.trace =
                        tasks[t].trace \o <<"result.type", last'.result.type>>
                \/ last'.trace =
                     tasks[t].trace \o <<"rejected: WebBrowser.openAuthSessionAsync">> ]_vars

\* a call waits for the agent while another call is in flight
C34_Witness ==
  \E t, o \in TaskIds :
    /\ t # o
    /\ AwaitingExternalAgent(t)
    /\ tasks[o] # Idle
    /\ tasks[o].op # "googleSignIn"

\* refreshOAuthSession was called within checkCurrentUser exactly when the
\* policy held for the Google identity, and then once
RefreshExactlyWhenExpired(trace, policyExpired) ==
  Cardinality(RefreshCalls("account.updateSession", trace)) =
    IF policyExpired THEN 1 ELSE 0

\* C35: during refresh(), refreshSession() is invoked exactly when an identity
\* whose provider matches "google" exists and isTokenExpired holds for its
\* expiry, an absent or empty expiry included; it is invoked at most once and
\* never without a matching identity.
C35_RefreshExactlyWhenExpired ==
  /\ \A t \in TaskIds : RefreshExactlyWhenExpired(tasks[t].trace, tasks[t].policyExpired)
  /\ RefreshExactlyWhenExpired(last.trace, last.policyExpired)

\* the userinfo endpoint answered within fetchUserProfile
FetchedExternal(trace) ==
  /\ \/ InTrace("fetch: session token", ProfileCalls(trace))
     \/ InTrace("fetch: identity token", ProfileCalls(trace))
  /\ ~InTrace("rejected: fetch", ProfileCalls(trace))

\* the names a profile of this user may carry: the external name when the
\* userinfo endpoint answered one, else the user's name, else "User"
ProfileNames(u, trace) ==
  LET own == IF truthy(u.name) THEN u.name ELSE "User"
  IN  IF FetchedExternal(trace)
      THEN { IF truthy(g.name) THEN g.name ELSE own : g \in GoogleProfiles }
      ELSE {own}

\* user and userProfile are both absent, or both set with the profile
\* computed from this user
PublishedConsistent(trace) ==
  \/ user = null /\ userProfile = null
  \/ /\ user # null
     /\ userProfile # null
     /\ userProfile.email = (IF truthy(user.email) THEN user.email ELSE "")
     /\ userProfile.name \in ProfileNames(user, trace)

\* C36: when a refresh() that no other operation overlaps has completed, user
\* and profile are both absent or both set, and a set profile was computed
\* from that user: its email is the user's, or "" when the user has none, and
\* its name is the external name, else the user's name, else "User".
C36_SerialRefreshConsistent ==
  (last.op # "none" /\ InTrace("checkCurrentUser", last.trace)) =>
    PublishedConsistent(last.trace)

\* a refresh() has replaced a user and a profile by another user, one
\* without a name, and the profile of that user
C36_Witness ==
  /\ last.op = "checkCurrentUser"
  /\ last.before.user # null
  /\ last.before.userProfile # null
  /\ user # null
  /\ user # last.before.user
  /\ ~truthy(user.name)
  /\ userProfile # null
  /\ userProfile.name = "User"

\* user and userProfile are both absent, or both set with a profile of this
\* user, whichever answer of the userinfo endpoint went into it
PublishedPair ==
  \/ user = null /\ userProfile = null
  \/ /\ user # null
     /\ userProfile # null
     /\ userProfile.email = (IF truthy(user.email) THEN user.email ELSE "")
     /\ userProfile.name \in
          {IF truthy(user.name) THEN user.name ELSE "User"}
            \cup {g.name : g \in {h \in GoogleProfiles : truthy(h.name)}}

\* C37: when two refresh() calls overlapped and both have completed, the
\* published profile was computed from the published user (both absent, or
\* both set with the profile's email and name derived from that user) and
\* isLoading is false.
C37_OverlappedRefreshConsistent ==
  (/\ Quiescent
   /\ last.overlapped
   /\ InTrace("checkCurrentUser", last.trace)) =>
    /\ PublishedPair
    /\ isLoading = FALSE

\* a checkCurrentUser or a logout is in flight
RefreshOrSignOutInFlight ==
  \E t \in TaskIds : InRefresh(t) \/ tasks[t].pc = "logout.deleteSession"

\* C38: whenever a refresh() or a signOut() is in flight isLoading is true,
\* also when operations overlap, so that a reader who sees isLoading false
\* never reads a pair that a call in flight is about to overwrite.
C38_LoadingWhileInFlight ==
  RefreshOrSignOutInFlight => isLoading = TRUE

\* C39: signin rejects if and only if account.createEmailPasswordSession
\* fails: once the session is created the call resolves, also when the
\* checkCurrentUser behind it finds no user or a call inside it fails, and
\* with no user found the state is unauthenticated: user and profile absent,
\* isLoading false.
C39_SigninRejectsIffSessionFails ==
  last.op = "signin" =>
    /\ last.status \in {"resolved", "rejected"}
    /\ last.status = "rejected" <=>
         InTrace("rejected: account.createEmailPasswordSession", last.trace)
    /\ last.status = "resolved" <=> InTrace("checkCurrentUser", last.trace)
    /\ (last.status = "resolved" /\ last.currentUser = null) =>
         /\ user = null
         /\ userProfile = null
         /\ isLoading = FALSE

\* a signin whose session was created has resolved although getCurrentUser
\* found no user, from a state that had a user and a profile
C39_Witness ==
  /\ last.op = "signin"
  /\ last.status = "resolved"
  /\ InTrace("getCurrentUser: no user", last.trace)
  /\ last.before.user # null
  /\ last.before.userProfile # null
  /\ user = null

====
